---- MODULE Spec2Model ----
(***************************************************************************)
(* A model of two analysis engines of cpptraj:                             *)
(*   - DSSP (src/Action_DSSP.cpp): setup(), action(), isBonded(),          *)
(*     SSassign();                                                         *)
(*   - DBSCAN clustering (src/Cluster_DBSCAN.cpp): SetupCluster(),         *)
(*     RegionQuery(), Cluster(), AddSievedFrames().                        *)
(* Residues and frames are numbered from 0 as in the source, so tables are *)
(* functions over 0..n-1.                                                  *)
(***************************************************************************)
EXTENDS Integers, Sequences, FiniteSets, TLC

VARIABLES
  \* ---- DSSP (Action_DSSP.cpp) ----
  Nres,        \* DSSP::Nres
  SecStruct,   \* DSSP::SecStruct, the residue table
  Nframe,      \* DSSP::Nframe, frames processed
  SSline,      \* DSSP::SSline, the string of the last frame
  pc,          \* position of the DSSP driver / of action()
  resi,        \* loop variable resi of action()
  frame,       \* geometry of the frame action() works on
  parm,        \* topology + mask of the last setup() call
  setupRet,    \* return value of the last setup() (-1: never called)
  actionRet,   \* return value of the last action() (-1: never returned)
  nsetup,      \* number of setup() calls so far (bounds the model only)
  \* ---- DBSCAN (Cluster_DBSCAN.cpp) ----
  minPoints_,        \* Cluster_DBSCAN::minPoints_
  epsilon_,          \* Cluster_DBSCAN::epsilon_
  sieveToCentroid_,  \* Cluster_DBSCAN::sieveToCentroid_
  FrameDistances_,   \* the pairwise distances and the ignored (sieved) rows
  Visited,           \* Visited of Cluster()
  Status_,           \* Cluster_DBSCAN::Status_
  clusters_,         \* the cluster list: the frames of each cluster
  centDist,          \* distance of each sieved frame to each centroid
  cpc,               \* position of the clustering run
  point,             \* position of Cluster()'s loop in FramesToCluster
  frameToCluster,    \* frameToCluster of AddSievedFrames()
  taken,             \* frames the parallel loop has handed to a worker
  wk,                \* the private variables of each worker
  Nsieved,           \* Nsieved after the reduction
  n_sieved_noise,    \* n_sieved_noise after the reduction
  \* ---- the parallel loop of DSSP::action() ----
  hbTaken,           \* residues the loop has handed to a thread
  hbWk               \* resi, resj and position of each thread

dsspVars == <<Nres, SecStruct, Nframe, SSline, pc, resi, frame, parm,
              setupRet, actionRet, nsetup>>

dbVars == <<minPoints_, epsilon_, sieveToCentroid_, FrameDistances_, Visited,
            Status_, clusters_, centDist, cpc, point, frameToCluster, taken,
            wk, Nsieved, n_sieved_noise>>

hbVars == <<hbTaken, hbWk>>

vars == <<dsspVars, dbVars, hbVars>>

-----------------------------------------------------------------------------
(* Bounds of the model                                                     *)

\* SpecSS: one topology of MaxResSS residues, frames built from helix turns
MaxResSS == 7
MaxTurns == 2
MaxFree == 2
MaxFramesSS == 1
MaxSetupsSS == 1
\* SpecFrames: small topologies with holes, several frames and setups
MaxRes == 4
MaxHoles == 1
MaxBonds == 1
MaxFrames == 2
MaxSetups == 2

MaxBondsHB == 2
\* SpecDB: frames of a clustering run, the last MaxSieved of them at most
\* sieved, distances 1..MaxDist, minpoints up to MaxMinPts, worker threads
NumFrames == 5
MaxSieved == 2
MaxDist == 2
MaxMinPts == 3
NumThreads == 2

-----------------------------------------------------------------------------
(* Small helpers                                                           *)

Size(f) == Cardinality(DOMAIN f)

Range0(n) == 0 .. (n - 1)

Abs(x) == IF x < 0 THEN -x ELSE x

\* all subsets of S with at most k elements
RECURSIVE SubsetsUpTo(_, _)
SubsetsUpTo(S, k) ==
  IF k = 0 THEN {{}}
  ELSE LET smaller == SubsetsUpTo(S, k - 1)
       IN  smaller \cup {T \cup {x} : T \in smaller, x \in S}

-----------------------------------------------------------------------------
(* DSSP data                                                               *)

\* DSSP::SSname, in the order of the SStype enumeration
SSname == <<"None", "Para", "Anti", "3-10", "Alpha", "Pi", "Turn">>

\* DSSP::SSchar, same order
SSchar == <<"0", "b", "B", "G", "H", "I", "T">>

SStype == {SSname[k] : k \in DOMAIN SSname}

SECSTRUCT_NULL == "None"

SSindex(t) == CHOOSE k \in DOMAIN SSname : SSname[k] = t

\* backbone atom names setup() looks for; "X" stands for any other atom
BackboneNames == {"C", "O", "N", "H"}
AtomNames == BackboneNames \cup {"X"}

NameOffset(name) ==
  CASE name = "N" -> 0 [] name = "H" -> 1 [] name = "C" -> 2
    [] name = "O" -> 3 [] OTHER -> 4

\* index of atom `name` of residue res in the topology (5 atoms a residue)
AtomIdx(res, name) == res * Cardinality(AtomNames) + NameOffset(name)

\* RES as setup() pushes it for a table of n residues
NewResidue(n) ==
  [sstype |-> SECSTRUCT_NULL, isSelected |-> FALSE,
   C |-> -1, O |-> -1, N |-> -1, H |-> -1,
   CO_HN_Hbond |-> [j \in Range0(n) |-> 0],
   SSprob |-> [t \in SStype |-> 0]]

-----------------------------------------------------------------------------
(* DSSP::setup()                                                           *)

\* A topology with its mask: nres residues, sel[r] the names of the atoms
\* of residue r that the mask selects.
MaskNone(P) == \A r \in Range0(P.nres) : P.sel[r] = {}

\* a faulty growth that rebuilds the whole table when residues are added
GrowTableFresh(S, n) ==
  IF n > Size(S) THEN [r \in Range0(n) |-> NewResidue(n)] ELSE S

\* lines 109-127: append a record for every residue the table lacks
GrowTable(S, n) ==
  [r \in Range0(IF n > Size(S) THEN n ELSE Size(S)) |->
     IF r \in DOMAIN S THEN S[r] ELSE NewResidue(n)]

\* lines 130-143: the selected atoms of residue r
SelectAtoms(R, r, names) ==
  [R EXCEPT
     !.isSelected = IF names # {} THEN TRUE ELSE @,
     !.C = IF "C" \in names THEN AtomIdx(r, "C") ELSE @,
     !.O = IF "O" \in names THEN AtomIdx(r, "O") ELSE @,
     !.N = IF "N" \in names THEN AtomIdx(r, "N") ELSE @,
     !.H = IF "H" \in names THEN AtomIdx(r, "H") ELSE @]

SetupTable(S, P) ==
  LET G == GrowTable(S, P.nres)
  IN  [r \in DOMAIN G |->
         IF r < P.nres THEN SelectAtoms(G[r], r, P.sel[r]) ELSE G[r]]

CountSelected(S, n) == Cardinality({r \in Range0(n) : S[r].isSelected})

-----------------------------------------------------------------------------
(* DSSP::isBonded(), DSSP::SSassign()                                      *)

isBonded(S, n, res1, res2) ==
  IF res1 < 0 THEN FALSE
  ELSE IF res2 < 0 THEN FALSE
  ELSE IF res1 >= n THEN FALSE
  ELSE IF res2 >= n THEN FALSE
  ELSE IF ~S[res1].isSelected THEN FALSE
  ELSE IF ~S[res2].isSelected THEN FALSE
  ELSE S[res1].CO_HN_Hbond[res2] = 1

\* a faulty SSassign that overwrites labels already set
RECURSIVE SSassignOverwrite(_, _, _, _, _)
SSassignOverwrite(S, n, res1, res2, typeIn) ==
  IF res1 >= res2 THEN S
  ELSE IF res1 = n THEN S
  ELSE IF ~S[res1].isSelected
       THEN SSassignOverwrite(S, n, res1 + 1, res2, typeIn)
  ELSE SSassignOverwrite([S EXCEPT ![res1].sstype = typeIn],
                         n, res1 + 1, res2, typeIn)

RECURSIVE SSassignLoop(_, _, _, _, _)
SSassignLoop(S, n, res, res2, typeIn) ==
  IF res >= res2 THEN S
  ELSE IF res = n THEN S
  ELSE IF ~S[res].isSelected THEN SSassignLoop(S, n, res + 1, res2, typeIn)
  ELSE IF S[res].sstype = SECSTRUCT_NULL
       THEN SSassignLoop([S EXCEPT ![res].sstype = typeIn],
                         n, res + 1, res2, typeIn)
  ELSE SSassignLoop(S, n, res + 1, res2, typeIn)

\* a faulty SSassign that labels residue res2 as well
SSassignInclusive(S, n, res1, res2, typeIn) ==
  SSassignLoop(S, n, res1, res2 + 1, typeIn)

SSassign(S, n, res1, res2, typeIn) == SSassignLoop(S, n, res1, res2, typeIn)

-----------------------------------------------------------------------------
(* DSSP::action(): the hydrogen-bond phase, lines 222-254                  *)

\* The frame's geometry enters only through the test E < -0.5 of line 250.
\* A frame is the set of residue pairs <<i, j>> whose C=O(i) and N-H(j)
\* atoms give E < -0.5.
EnergyBelowCutoff(fr, i, j) == <<i, j>> \in fr

\* a faulty test that forgets line 239 (residue j without N or H)
HBondValueNoNH(S, n, fr, i, j) ==
  IF ~S[j].isSelected THEN 0
  ELSE IF i = j THEN 0
  ELSE IF EnergyBelowCutoff(fr, i, j) THEN 1 ELSE 0

\* lines 236-251: the value iteration (i, j) leaves in CO_HN_Hbond[j]
HBondValue(S, n, fr, i, j) ==
  IF ~S[j].isSelected THEN 0
  ELSE IF i = j THEN 0
  ELSE IF S[j].H = -1 \/ S[j].N = -1 THEN 0
  ELSE IF EnergyBelowCutoff(fr, i, j) THEN 1 ELSE 0

\* a faulty iteration that neither resets the label nor clears the row
HBondRowNoReset(S, n, fr, i) ==
  LET old(j) == j \in DOMAIN S[i].CO_HN_Hbond /\ S[i].CO_HN_Hbond[j] = 1
  IN  IF ~S[i].isSelected THEN S[i]
      ELSE IF S[i].C = -1 \/ S[i].O = -1
           THEN [S[i] EXCEPT
                   !.CO_HN_Hbond =
                      [j \in Range0(n) |-> IF old(j) THEN 1 ELSE 0]]
      ELSE [S[i] EXCEPT
              !.CO_HN_Hbond =
                 [j \in Range0(n) |->
                    IF old(j) THEN 1 ELSE HBondValue(S, n, fr, i, j)]]

\* one iteration of the loop over resi: the new record of residue i
HBondRow(S, n, fr, i) ==
  IF ~S[i].isSelected THEN S[i]
  ELSE IF S[i].C = -1 \/ S[i].O = -1
       THEN [S[i] EXCEPT !.sstype = SECSTRUCT_NULL,
                         !.CO_HN_Hbond = [j \in Range0(n) |-> 0]]
  ELSE [S[i] EXCEPT !.sstype = SECSTRUCT_NULL,
                    !.CO_HN_Hbond =
                       [j \in Range0(n) |-> HBondValue(S, n, fr, i, j)]]

\* the whole loop: iteration i writes record i only and reads of the other
\* records only isSelected, N and H, which no iteration writes
HBondPhase(S, n, fr) ==
  [r \in DOMAIN S |-> IF r < n THEN HBondRow(S, n, fr, r) ELSE S[r]]

-----------------------------------------------------------------------------
(* DSSP::action(): the helix / sheet pass, lines 262-304                   *)

AlphaRule(S, n, i) == isBonded(S, n, i - 1, i + 3) /\ isBonded(S, n, i, i + 4)

ThreeTenRule(S, n, i) ==
  isBonded(S, n, i - 1, i + 2) /\ isBonded(S, n, i, i + 3)

PiRule(S, n, i) == isBonded(S, n, i - 1, i + 4) /\ isBonded(S, n, i, i + 5)

ParaRule(S, n, i, j) ==
  \/ isBonded(S, n, i - 1, j) /\ isBonded(S, n, j, i + 1)
  \/ isBonded(S, n, j - 1, i) /\ isBonded(S, n, i, j + 1)

AntiRule(S, n, i, j) ==
  \/ isBonded(S, n, i - 1, j + 1) /\ isBonded(S, n, j - 1, i + 1)
  \/ isBonded(S, n, i, j) /\ isBonded(S, n, j, i)

\* a faulty scan that tests the Antiparallel pattern before the Parallel one
RECURSIVE BetaScanAntiFirst(_, _, _, _)
BetaScanAntiFirst(S, n, i, j) ==
  IF j >= n THEN SECSTRUCT_NULL
  ELSE IF ~S[j].isSelected THEN BetaScanAntiFirst(S, n, i, j + 1)
  ELSE IF Abs(i - j) > 2
       THEN IF AntiRule(S, n, i, j) THEN "Anti"
            ELSE IF ParaRule(S, n, i, j) THEN "Para"
            ELSE BetaScanAntiFirst(S, n, i, j + 1)
  ELSE BetaScanAntiFirst(S, n, i, j + 1)

\* lines 273-289: the label the scan over resj gives residue i
RECURSIVE BetaScan(_, _, _, _)
BetaScan(S, n, i, j) ==
  IF j >= n THEN SECSTRUCT_NULL
  ELSE IF ~S[j].isSelected THEN BetaScan(S, n, i, j + 1)
  ELSE IF Abs(i - j) > 2
       THEN IF ParaRule(S, n, i, j) THEN "Para"
            ELSE IF AntiRule(S, n, i, j) THEN "Anti"
            ELSE BetaScan(S, n, i, j + 1)
  ELSE BetaScan(S, n, i, j + 1)

\* lines 293-303, reached when the sheet block did not `continue`
HelixTail(S, n, i) ==
  IF ThreeTenRule(S, n, i) THEN SSassign(S, n, i, i + 3, "3-10")
  ELSE IF PiRule(S, n, i) THEN SSassign(S, n, i, i + 5, "Pi")
  ELSE S

\* one iteration of the loop of lines 262-304
SSIter(S, n, i) ==
  IF ~S[i].isSelected THEN S
  ELSE IF AlphaRule(S, n, i) THEN SSassign(S, n, i, i + 4, "Alpha")
  ELSE IF S[i].sstype = SECSTRUCT_NULL
       THEN LET b == BetaScan(S, n, i, 0)
            IN  IF b # SECSTRUCT_NULL
                THEN [S EXCEPT ![i].sstype = b]
                ELSE HelixTail(S, n, i)
  ELSE HelixTail(S, n, i)

-----------------------------------------------------------------------------
(* DSSP::action(): the Turn pass, lines 307-321                            *)

\* the Turn scan with the spans tried from the shortest to the longest
TurnScanShortest(S, n, i, span) ==
  IF isBonded(S, n, i, i + 3) THEN SSassign(S, n, i + 1, i + 3, "Turn")
  ELSE IF isBonded(S, n, i, i + 4) THEN SSassign(S, n, i + 1, i + 4, "Turn")
  ELSE IF isBonded(S, n, i, i + 5) THEN SSassign(S, n, i + 1, i + 5, "Turn")
  ELSE S

RECURSIVE TurnScan(_, _, _, _)
TurnScan(S, n, i, span) ==
  IF span <= 2 THEN S
  ELSE IF isBonded(S, n, i, i + span)
       THEN SSassign(S, n, i + 1, i + span, "Turn")
  ELSE TurnScan(S, n, i, span - 1)

TurnIter(S, n, i) ==
  IF ~S[i].isSelected THEN S ELSE TurnScan(S, n, i, 5)

-----------------------------------------------------------------------------
(* DSSP::action(): storing the frame, lines 325-340                        *)

StoreProb(S, n) ==
  [r \in DOMAIN S |->
     IF r < n /\ S[r].isSelected
     THEN [S[r] EXCEPT !.SSprob[S[r].sstype] = @ + 1]
     ELSE S[r]]

\* a faulty line that gives every residue a character
RECURSIVE LineFromAll(_, _, _)
LineFromAll(S, n, r) ==
  IF r >= n THEN <<>>
  ELSE <<SSchar[SSindex(S[r].sstype)]>> \o LineFromAll(S, n, r + 1)

\* lines 329-335 in string mode: the characters written to SSline
RECURSIVE LineFrom(_, _, _)
LineFrom(S, n, r) ==
  IF r >= n THEN <<>>
  ELSE IF ~S[r].isSelected THEN LineFrom(S, n, r + 1)
  ELSE <<SSchar[SSindex(S[r].sstype)]>> \o LineFrom(S, n, r + 1)

-----------------------------------------------------------------------------
(* Inputs of the DSSP model                                                *)

FullSel == BackboneNames \cup {"X"}

\* what a mask can select of a residue that is not selected whole
HoleSels == {{}, {"X"}, {"C", "O", "X"}, {"N", "H", "X"}, {"C", "O", "N"}}

\* topologies of n residues with at most h residues not selected whole
ParmsOf(n, h) ==
  {[nres |-> n, sel |-> [r \in Range0(n) |->
                           IF r \in holes THEN hs ELSE FullSel]] :
     holes \in SubsetsUpTo(Range0(n), h), hs \in HoleSels}

Pairs(n) == {p \in Range0(n) \X Range0(n) : p[1] # p[2]}

\* the two bonds of one helix turn of span s at residue i
TurnMotifs(n) ==
  {{<<i - 1, i + s - 1>>, <<i, i + s>>} :
     i \in 1 .. (n - 1), s \in 3 .. 5} \cap SUBSET Pairs(n)

RECURSIVE UnionOf(_)
UnionOf(SS) ==
  IF SS = {} THEN {}
  ELSE LET x == CHOOSE x \in SS : TRUE IN x \cup UnionOf(SS \ {x})

\* frames: up to t helix turns plus up to f further bonds
FramesOf(n, t, f) ==
  {UnionOf(M) \cup F :
     M \in SubsetsUpTo(TurnMotifs(n), t), F \in SubsetsUpTo(Pairs(n), f)}

ParmsSS == ParmsOf(MaxResSS, 0)
FramesSS == FramesOf(MaxResSS, MaxTurns, MaxFree)

\* a topology of n residues of which the mask selects no backbone atom
BareParms(n) == {[nres |-> n, sel |-> [r \in Range0(n) |-> {"X"}]]}

ParmsSeq ==
  ParmsOf(MaxRes, MaxHoles) \cup ParmsOf(MaxRes - 1, MaxHoles)
    \cup BareParms(MaxRes - 1)
FramesSeq == SubsetsUpTo(Pairs(MaxRes), MaxBonds)

\* inputs of the parallel loop: topologies with a residue not selected
\* whole, frames of up to MaxBondsHB bonds
ParmsHB == ParmsOf(MaxRes - 1, MaxHoles)
FramesHB == SubsetsUpTo(Pairs(MaxRes - 1), MaxBondsHB)

-----------------------------------------------------------------------------
(* The DSSP state machine                                                  *)

DsspStart ==
  /\ Nres = 0
  /\ SecStruct = <<>>
  /\ Nframe = 0
  /\ SSline = <<>>
  /\ pc = "idle"
  /\ resi = 0
  /\ frame = {}
  /\ parm = [nres |-> 0, sel |-> <<>>]
  /\ setupRet = -1
  /\ actionRet = -1
  /\ nsetup = 0

\* DSSP::setup() for topology P (Cpptraj::Run calls it between trajectories)
DsspSetup(Parms, maxSetups) ==
  /\ pc = "idle"
  /\ nsetup < maxSetups
  /\ \E P \in Parms :
       /\ parm' = P
       /\ IF MaskNone(P)
          THEN /\ setupRet' = 1
               /\ UNCHANGED <<Nres, SecStruct>>
          ELSE /\ setupRet' = 0
               /\ Nres' = P.nres
               /\ SecStruct' = SetupTable(SecStruct, P)
  /\ nsetup' = nsetup + 1
  /\ UNCHANGED <<Nframe, SSline, pc, resi, frame, actionRet>>
  /\ UNCHANGED <<dbVars, hbVars>>

\* action() is entered with the next frame of the trajectory and runs the
\* hydrogen-bond phase; Run reads frames only after a successful setup
DsspHBond(Frames, maxFrames) ==
  /\ pc = "idle"
  /\ setupRet = 0
  /\ Nframe < maxFrames
  /\ \E fr \in Frames :
       /\ frame' = fr
       /\ SecStruct' = HBondPhase(SecStruct, Nres, fr)
  /\ pc' = "ss"
  /\ resi' = 0
  /\ UNCHANGED <<Nres, Nframe, SSline, parm, setupRet, actionRet, nsetup>>
  /\ UNCHANGED <<dbVars, hbVars>>

DsspSS ==
  /\ pc = "ss"
  /\ IF resi < Nres
     THEN /\ SecStruct' = SSIter(SecStruct, Nres, resi)
          /\ resi' = resi + 1
          /\ pc' = pc
     ELSE /\ pc' = "turn"
          /\ resi' = 0
          /\ UNCHANGED SecStruct
  /\ UNCHANGED <<Nres, Nframe, SSline, frame, parm, setupRet, actionRet, nsetup>>
  /\ UNCHANGED <<dbVars, hbVars>>

DsspTurn ==
  /\ pc = "turn"
  /\ IF resi < Nres
     THEN /\ SecStruct' = TurnIter(SecStruct, Nres, resi)
          /\ resi' = resi + 1
          /\ pc' = pc
     ELSE /\ pc' = "store"
          /\ resi' = 0
          /\ UNCHANGED SecStruct
  /\ UNCHANGED <<Nres, Nframe, SSline, frame, parm, setupRet, actionRet, nsetup>>
  /\ UNCHANGED <<dbVars, hbVars>>

DsspStore ==
  /\ pc = "store"
  /\ SecStruct' = StoreProb(SecStruct, Nres)
  /\ SSline' = LineFrom(SecStruct, Nres, 0)
  /\ Nframe' = Nframe + 1
  /\ actionRet' = 0
  /\ pc' = "idle"
  /\ UNCHANGED <<Nres, resi, frame, parm, setupRet, nsetup>>
  /\ UNCHANGED <<dbVars, hbVars>>

\* avg = SSprob[ss] / Nframe of line 373: a division of doubles, which for
\* a zero divisor gives NaN (0/0) or infinity
Quotient(count, n) ==
  IF n = 0
  THEN [kind |-> IF count = 0 THEN "nan" ELSE "inf", num |-> count, den |-> n]
  ELSE [kind |-> "finite", num |-> count, den |-> n]

\* a faulty average over the occurrences of the residue itself
AveragesPerResidue(S, n, nframe) ==
  [r \in {q \in Range0(n) : S[q].isSelected} |->
     [ss \in 2 .. 7 |->
        Quotient(S[r].SSprob[SSname[ss]],
                 S[r].SSprob["None"] + S[r].SSprob["Para"]
                   + S[r].SSprob["Anti"] + S[r].SSprob["3-10"]
                   + S[r].SSprob["Alpha"] + S[r].SSprob["Pi"]
                   + S[r].SSprob["Turn"])]]

\* lines 369-377: what print() adds to dsspData, for every selected residue
\* below Nres the averages of types 1..6 (positions 2..7 of SSname)
Averages(S, n, nframe) ==
  [r \in {q \in Range0(n) : S[q].isSelected} |->
     [ss \in 2 .. 7 |-> Quotient(S[r].SSprob[SSname[ss]], nframe)]]

\* DSSP::print() with sumOut set, at the end of the run; what it reports is
\* Averages of the state it leaves
DsspPrint ==
  /\ pc = "idle"
  /\ pc' = "printed"
  /\ UNCHANGED <<Nres, SecStruct, Nframe, SSline, resi, frame, parm, setupRet,
                 actionRet, nsetup>>
  /\ UNCHANGED <<dbVars, hbVars>>

-----------------------------------------------------------------------------
(* DBSCAN data                                                             *)

\* Potential frame statuses, lines 68-70
UNASSIGNED == "U"
NOISE == "N"
INCLUSTER == "C"

Frames == Range0(NumFrames)

Workers == 1 .. NumThreads

\* DBL_MAX of line 227: above every distance
DBL_MAX == MaxDist + 1

DistVals == 1 .. MaxDist

\* the value getKeyInt / getKeyDouble return for an absent keyword
MissingArg == -1

MinPtsArgs == MissingArg .. MaxMinPts
EpsArgs == {MissingArg, 0, MaxDist}

UnorderedPairs == {p \in Frames \X Frames : p[1] < p[2]}

\* the inputs of a clustering run: the metric d on the frames and the rows
\* the matrix ignores (the sieved frames)
DataSets ==
  {[nframes |-> NumFrames, d |-> dd,
    ignore |-> {f \in Frames : f >= NumFrames - k}] :
     dd \in [UnorderedPairs -> DistVals], k \in 0 .. MaxSieved}

\* ClusterDist::FrameDist(f, g): the metric between two frames
FrameDist(f, g) ==
  IF f = g THEN 0
  ELSE IF f < g THEN FrameDistances_.d[<<f, g>>]
  ELSE FrameDistances_.d[<<g, f>>]

\* FrameDistances_.GetElement(f, g): the stored distance of two frames
GetElement(f, g) == FrameDist(f, g)

IgnoringRow(f) == f \in FrameDistances_.ignore

\* ClusterDist::FrameCentroidDist(frame, (*Cnode).Cent())
FrameCentroidDist(f, Cnode) == centDist[f][Cnode]

\* iterators of the cluster list: positions 1..size, end() one past
ClustersEnd == Len(clusters_) + 1

RECURSIVE AscendingSeq(_)
AscendingSeq(S) ==
  IF S = {} THEN <<>>
  ELSE LET m == CHOOSE x \in S : \A y \in S : x <= y
       IN  <<m>> \o AscendingSeq(S \ {m})

\* lines 81-83
FramesToCluster == AscendingSeq({f \in Frames : ~IgnoringRow(f)})

-----------------------------------------------------------------------------
(* Cluster_DBSCAN::SetupCluster(), lines 20-35                             *)

DbStart ==
  /\ minPoints_ = -1
  /\ epsilon_ = -1
  /\ sieveToCentroid_ = TRUE
  /\ FrameDistances_ = [nframes |-> 0, d |-> <<>>, ignore |-> {}]
  /\ Visited = <<>>
  /\ Status_ = <<>>
  /\ clusters_ = <<>>
  /\ centDist = <<>>
  /\ cpc = "new"
  /\ point = 0
  /\ frameToCluster = <<>>
  /\ taken = {}
  /\ wk = <<>>
  /\ Nsieved = 0
  /\ n_sieved_noise = 0

\* a faulty check that lets epsilon 0 through
SetupClusterZeroEpsilon ==
  /\ cpc = "new"
  /\ \E mp \in MinPtsArgs, eps \in EpsArgs, sievetoframe \in BOOLEAN :
       /\ minPoints_' = mp
       /\ IF mp < 1
          THEN /\ cpc' = "rejected"
               /\ UNCHANGED <<epsilon_, sieveToCentroid_>>
          ELSE /\ epsilon_' = eps
               /\ IF eps < 0
                  THEN cpc' = "rejected" /\ UNCHANGED sieveToCentroid_
                  ELSE cpc' = "configured" /\ sieveToCentroid_' = ~sievetoframe
  /\ UNCHANGED <<FrameDistances_, Visited, Status_, clusters_, centDist, point,
                 frameToCluster, taken, wk, Nsieved, n_sieved_noise>>
  /\ UNCHANGED <<dsspVars, hbVars>>

SetupCluster ==
  /\ cpc = "new"
  /\ \E mp \in MinPtsArgs, eps \in EpsArgs, sievetoframe \in BOOLEAN :
       /\ minPoints_' = mp
       /\ IF mp < 1
          THEN /\ cpc' = "rejected"
               /\ UNCHANGED <<epsilon_, sieveToCentroid_>>
          ELSE /\ epsilon_' = eps
               /\ IF eps <= 0
                  THEN cpc' = "rejected" /\ UNCHANGED sieveToCentroid_
                  ELSE cpc' = "configured" /\ sieveToCentroid_' = ~sievetoframe
  /\ UNCHANGED <<FrameDistances_, Visited, Status_, clusters_, centDist, point,
                 frameToCluster, taken, wk, Nsieved, n_sieved_noise>>
  /\ UNCHANGED <<dsspVars, hbVars>>

-----------------------------------------------------------------------------
(* Cluster_DBSCAN::RegionQuery() and Cluster()                             *)

\* a faulty query that takes a distance equal to epsilon as near
RECURSIVE RegionQueryInclusive(_, _, _)
RegionQueryInclusive(ftc, k, pt) ==
  IF k > Len(ftc) THEN <<>>
  ELSE IF pt = ftc[k] THEN RegionQueryInclusive(ftc, k + 1, pt)
  ELSE IF GetElement(pt, ftc[k]) <= epsilon_
       THEN <<ftc[k]>> \o RegionQueryInclusive(ftc, k + 1, pt)
  ELSE RegionQueryInclusive(ftc, k + 1, pt)

\* lines 56-64 from position k of FramesToCluster on
RECURSIVE RegionQueryFrom(_, _, _)
RegionQueryFrom(ftc, k, pt) ==
  IF k > Len(ftc) THEN <<>>
  ELSE IF pt = ftc[k] THEN RegionQueryFrom(ftc, k + 1, pt)
  ELSE IF GetElement(pt, ftc[k]) < epsilon_
       THEN <<ftc[k]>> \o RegionQueryFrom(ftc, k + 1, pt)
  ELSE RegionQueryFrom(ftc, k + 1, pt)

RegionQuery(ftc, k, pt) == RegionQueryFrom(ftc, k, pt)

\* a faulty expansion step that forgets line 133
AddNeighborKeepStatus(st, cf, neighbor_pt) ==
  IF st[neighbor_pt] # INCLUSTER
  THEN [st |-> st, cf |-> cf \cup {neighbor_pt}]
  ELSE [st |-> st, cf |-> cf]

\* lines 131-134
AddNeighbor(st, cf, neighbor_pt) ==
  IF st[neighbor_pt] # INCLUSTER
  THEN [st |-> [st EXCEPT ![neighbor_pt] = INCLUSTER],
        cf |-> cf \cup {neighbor_pt}]
  ELSE [st |-> st, cf |-> cf]

\* lines 116-135: the loop over the growing NeighborPts from idx on;
\* cf holds the frames of cluster_frames
RECURSIVE Expand(_, _, _, _, _)
Expand(NeighborPts, idx, vis, st, cf) ==
  IF idx > Len(NeighborPts) THEN [vis |-> vis, st |-> st, cf |-> cf]
  ELSE LET neighbor_pt == NeighborPts[idx]
           Npts2 == RegionQuery(FramesToCluster, 1, neighbor_pt)
           grown == IF ~vis[neighbor_pt] /\ Len(Npts2) >= minPoints_
                    THEN NeighborPts \o Npts2 ELSE NeighborPts
           a == AddNeighbor(st, cf, neighbor_pt)
       IN  Expand(grown, idx + 1, [vis EXCEPT ![neighbor_pt] = TRUE],
                  a.st, a.cf)

\* Cluster() is entered with the distance matrix of the run: lines 76-92
ClusterBegin ==
  /\ cpc = "configured"
  /\ \E D \in DataSets : FrameDistances_' = D
  /\ Visited' = [f \in Frames |-> FALSE]
  /\ Status_' = [f \in Frames |-> UNASSIGNED]
  /\ point' = 1
  /\ cpc' = "cluster"
  /\ UNCHANGED <<minPoints_, epsilon_, sieveToCentroid_, clusters_, centDist,
                 frameToCluster, taken, wk, Nsieved, n_sieved_noise>>
  /\ UNCHANGED <<dsspVars, hbVars>>

\* a faulty iteration without the test of line 96: a visited point is
\* queried again
ClusterVisitAgain(pt, vis, st, cl) ==
  LET NeighborPts == RegionQuery(FramesToCluster, 1, pt)
  IN  IF Len(NeighborPts) < minPoints_
      THEN [vis |-> [vis EXCEPT ![pt] = TRUE],
            st |-> [st EXCEPT ![pt] = NOISE], cl |-> cl]
      ELSE LET e == Expand(NeighborPts, 1, [vis EXCEPT ![pt] = TRUE],
                           st, {pt})
           IN  [vis |-> e.vis, st |-> e.st, cl |-> Append(cl, e.cf)]

\* lines 94-143 for one point of the loop: the visit marks, statuses and
\* cluster list it leaves
ClusterVisit(pt, vis, st, cl) ==
  LET NeighborPts == RegionQuery(FramesToCluster, 1, pt)
  IN  IF vis[pt] THEN [vis |-> vis, st |-> st, cl |-> cl]
      ELSE IF Len(NeighborPts) < minPoints_
      THEN [vis |-> [vis EXCEPT ![pt] = TRUE],
            st |-> [st EXCEPT ![pt] = NOISE], cl |-> cl]
      ELSE LET e == Expand(NeighborPts, 1, [vis EXCEPT ![pt] = TRUE],
                           st, {pt})
           IN  [vis |-> e.vis, st |-> e.st, cl |-> Append(cl, e.cf)]

\* one iteration of the loop of lines 93-151
ClusterPoint ==
  /\ cpc = "cluster"
  /\ point <= Len(FramesToCluster)
  /\ LET v == ClusterVisit(FramesToCluster[point], Visited, Status_, clusters_)
     IN  /\ Visited' = v.vis
         /\ Status_' = v.st
         /\ clusters_' = v.cl
  /\ point' = point + 1
  /\ UNCHANGED <<minPoints_, epsilon_, sieveToCentroid_, FrameDistances_,
                 centDist, cpc, frameToCluster, taken, wk, Nsieved,
                 n_sieved_noise>>
  /\ UNCHANGED <<dsspVars, hbVars>>

\* lines 152-166: the centroids are calculated; the model keeps of them the
\* distance of every ignored frame to every centroid
ClusterFinish ==
  /\ cpc = "cluster"
  /\ point > Len(FramesToCluster)
  /\ centDist' \in [FrameDistances_.ignore ->
                      [1 .. Len(clusters_) -> DistVals]]
  /\ cpc' = "clustered"
  /\ UNCHANGED <<minPoints_, epsilon_, sieveToCentroid_, FrameDistances_,
                 Visited, Status_, clusters_, point, frameToCluster, taken,
                 wk, Nsieved, n_sieved_noise>>
  /\ UNCHANGED <<dsspVars, hbVars>>

-----------------------------------------------------------------------------
(* Cluster_DBSCAN::AddSievedFrames()                                       *)

IdleWorker(ns, nn) ==
  [st |-> "idle", frame |-> -1, mindist |-> DBL_MAX, minNode |-> 0,
   Nsieved |-> ns, n_sieved_noise |-> nn]

\* lines 186-220: the temporary array, the private copies of each worker
SieveBegin ==
  /\ cpc = "clustered"
  /\ frameToCluster' = [f \in Frames |-> ClustersEnd]
  /\ taken' = {}
  /\ wk' = [w \in Workers |-> IdleWorker(0, 0)]
  /\ cpc' = "sieve"
  /\ UNCHANGED <<minPoints_, epsilon_, sieveToCentroid_, FrameDistances_,
                 Visited, Status_, clusters_, centDist, point, Nsieved,
                 n_sieved_noise>>
  /\ UNCHANGED <<dsspVars, hbVars>>

\* a faulty search that moves on to a later cluster at equal distance
RECURSIVE NearestLast(_, _, _, _)
NearestLast(f, Cnode, mindist, minNode) ==
  IF Cnode > Len(clusters_) THEN [mindist |-> mindist, minNode |-> minNode]
  ELSE LET dist == FrameCentroidDist(f, Cnode)
       IN  IF dist <= mindist
           THEN NearestLast(f, Cnode + 1, dist, Cnode)
           ELSE NearestLast(f, Cnode + 1, mindist, minNode)

\* lines 229-239 from cluster Cnode on
RECURSIVE NearestFrom(_, _, _, _)
NearestFrom(f, Cnode, mindist, minNode) ==
  IF Cnode > Len(clusters_) THEN [mindist |-> mindist, minNode |-> minNode]
  ELSE LET dist == FrameCentroidDist(f, Cnode)
       IN  IF dist < mindist
           THEN NearestFrom(f, Cnode + 1, dist, Cnode)
           ELSE NearestFrom(f, Cnode + 1, mindist, minNode)

\* a faulty read that sees the frames already restored to the cluster
ClusterFramesWithRestored(Cnode) ==
  clusters_[Cnode] \cup {f \in Frames : frameToCluster[f] = Cnode}

\* (*minNode).ClusterFrame(cidx) for cidx < Nframes(): the cluster's frames
ClusterFrames(Cnode) == clusters_[Cnode]

\* lines 246-257
MemberWithinEpsilon(f, minNode) ==
  \E m \in ClusterFrames(minNode) : FrameDist(f, m) < epsilon_

\* line 241
CentroidAccepts(mindist) == sieveToCentroid_ \/ mindist < epsilon_

\* a worker takes the next frame of the parallel loop and finds the nearest
\* centroid, lines 223-239 (iterations of frames not ignored do nothing)
SieveTake(w) ==
  /\ cpc = "sieve"
  /\ wk[w].st = "idle"
  /\ \E f \in FrameDistances_.ignore \ taken :
       /\ taken' = taken \cup {f}
       /\ LET n == NearestFrom(f, 1, DBL_MAX, ClustersEnd)
          IN  wk' = [wk EXCEPT ![w].st = "found", ![w].frame = f,
                               ![w].mindist = n.mindist,
                               ![w].minNode = n.minNode]
  /\ UNCHANGED <<minPoints_, epsilon_, sieveToCentroid_, FrameDistances_,
                 Visited, Status_, clusters_, centDist, cpc, point,
                 frameToCluster, Nsieved, n_sieved_noise>>
  /\ UNCHANGED <<dsspVars, hbVars>>

\* lines 261-265 for the frame of worker w, goodFrame given
SieveRecord(w, goodFrame) ==
  /\ frameToCluster' =
       IF goodFrame
       THEN [frameToCluster EXCEPT ![wk[w].frame] = wk[w].minNode]
       ELSE frameToCluster
  /\ wk' = [wk EXCEPT
              ![w] = IdleWorker(wk[w].Nsieved + 1,
                                IF goodFrame THEN wk[w].n_sieved_noise
                                ELSE wk[w].n_sieved_noise + 1)]
  /\ cpc' = cpc

\* lines 240-265. With an empty cluster list minNode is clusters_.end();
\* under sievetoframe line 246 then dereferences it: the read is undefined,
\* it may give any goodFrame or end the run.
SieveDecide(w) ==
  /\ cpc = "sieve"
  /\ wk[w].st = "found"
  /\ IF CentroidAccepts(wk[w].mindist)
     THEN SieveRecord(w, TRUE)
     ELSE IF wk[w].minNode = ClustersEnd
     THEN \/ \E goodFrame \in BOOLEAN : SieveRecord(w, goodFrame)
          \/ cpc' = "crashed" /\ UNCHANGED <<frameToCluster, wk>>
     ELSE SieveRecord(w, MemberWithinEpsilon(wk[w].frame, wk[w].minNode))
  /\ UNCHANGED <<minPoints_, epsilon_, sieveToCentroid_, FrameDistances_,
                 Visited, Status_, clusters_, centDist, point, taken,
                 Nsieved, n_sieved_noise>>
  /\ UNCHANGED <<dsspVars, hbVars>>

RECURSIVE SumOver(_, _)
SumOver(W, val) ==
  IF W = {} THEN 0
  ELSE LET w == CHOOSE x \in W : TRUE IN val[w] + SumOver(W \ {w}, val)

\* a faulty commit that replaces the members of a cluster that gains frames
CommitReplacing(Cnode) ==
  LET restored == {f \in Frames : frameToCluster[f] = Cnode}
  IN  IF restored = {} THEN clusters_[Cnode] ELSE restored

\* lines 277-279 for one cluster: every frame whose slot names it is added
CommitFrames(Cnode) ==
  clusters_[Cnode] \cup {f \in Frames : frameToCluster[f] = Cnode}

\* lines 268-281: the reduction, then the frames are added to the clusters
SieveCommit ==
  /\ cpc = "sieve"
  /\ taken = FrameDistances_.ignore
  /\ \A w \in Workers : wk[w].st = "idle"
  /\ clusters_' = [c \in DOMAIN clusters_ |-> CommitFrames(c)]
  /\ Nsieved' = SumOver(Workers, [w \in Workers |-> wk[w].Nsieved])
  /\ n_sieved_noise' = SumOver(Workers, [w \in Workers |-> wk[w].n_sieved_noise])
  /\ cpc' = "done"
  /\ UNCHANGED <<minPoints_, epsilon_, sieveToCentroid_, FrameDistances_,
                 Visited, Status_, centDist, point, frameToCluster, taken, wk>>
  /\ UNCHANGED <<dsspVars, hbVars>>

\* Cluster_DBSCAN::ClusterResults(), lines 170-182: the frame numbers
\* (from 1) printed after #NOISE_FRAMES:
ClusterResults == {f + 1 : f \in {g \in DOMAIN Status_ : Status_[g] = NOISE}}

-----------------------------------------------------------------------------
(* DSSP::action(): the hydrogen-bond loop run by several threads,          *)
(* lines 216-254                                                           *)

IdleThread == [st |-> "idle", resi |-> -1, resj |-> 0]

HbStart ==
  /\ hbTaken = {}
  /\ hbWk = [w \in Workers |-> IdleThread]

\* a faulty reset that also clears the row of the next residue
ResetResidueAndNext(S, n, i) ==
  [r \in DOMAIN S |->
     IF r = i \/ (r = i + 1 /\ r < n)
     THEN [S[r] EXCEPT !.sstype = SECSTRUCT_NULL,
                       !.CO_HN_Hbond = [j \in Range0(n) |-> 0]]
     ELSE S[r]]

\* lines 225-226: the label and the row of residue i are reset
ResetResidue(S, n, i) ==
  [r \in DOMAIN S |->
     IF r = i
     THEN [S[r] EXCEPT !.sstype = SECSTRUCT_NULL,
                       !.CO_HN_Hbond = [j \in Range0(n) |-> 0]]
     ELSE S[r]]

\* action() is entered with a frame and the threads start, lines 216-221
HbBegin(FrameSet, maxFrames) ==
  /\ pc = "idle"
  /\ setupRet = 0
  /\ Nframe < maxFrames
  /\ \E fr \in FrameSet : frame' = fr
  /\ pc' = "hb"
  /\ hbTaken' = {}
  /\ hbWk' = [w \in Workers |-> IdleThread]
  /\ UNCHANGED <<Nres, SecStruct, Nframe, SSline, resi, parm, setupRet,
                 actionRet, nsetup>>
  /\ UNCHANGED dbVars

\* omp for: thread w is given an iteration resi no thread has had
HbTake(w) ==
  /\ pc = "hb"
  /\ hbWk[w].st = "idle"
  /\ \E i \in Range0(Nres) \ hbTaken :
       /\ hbTaken' = hbTaken \cup {i}
       /\ hbWk' = [hbWk EXCEPT ![w] = [st |-> "reset", resi |-> i, resj |-> 0]]
  /\ UNCHANGED dsspVars
  /\ UNCHANGED dbVars

\* lines 223-230 of the iteration of thread w
HbReset(w) ==
  /\ pc = "hb"
  /\ hbWk[w].st = "reset"
  /\ LET i == hbWk[w].resi
     IN  IF ~SecStruct[i].isSelected
         THEN /\ hbWk' = [hbWk EXCEPT ![w] = IdleThread]
              /\ UNCHANGED SecStruct
         ELSE /\ SecStruct' = ResetResidue(SecStruct, Nres, i)
              /\ IF SecStruct[i].C = -1 \/ SecStruct[i].O = -1
                 THEN hbWk' = [hbWk EXCEPT ![w] = IdleThread]
                 ELSE hbWk' = [hbWk EXCEPT ![w].st = "row"]
  /\ UNCHANGED <<Nres, Nframe, SSline, pc, resi, frame, parm, setupRet,
                 actionRet, nsetup, hbTaken>>
  /\ UNCHANGED dbVars

\* lines 231-251 for one resj of the iteration of thread w
HbCell(w) ==
  /\ pc = "hb"
  /\ hbWk[w].st = "row"
  /\ LET i == hbWk[w].resi
         j == hbWk[w].resj
     IN  IF j < Nres
         THEN /\ SecStruct' =
                   IF HBondValue(SecStruct, Nres, frame, i, j) = 1
                   THEN [SecStruct EXCEPT ![i].CO_HN_Hbond[j] = 1]
                   ELSE SecStruct
              /\ hbWk' = [hbWk EXCEPT ![w].resj = j + 1]
         ELSE /\ hbWk' = [hbWk EXCEPT ![w] = IdleThread]
              /\ UNCHANGED SecStruct
  /\ UNCHANGED <<Nres, Nframe, SSline, pc, resi, frame, parm, setupRet,
                 actionRet, nsetup, hbTaken>>
  /\ UNCHANGED dbVars

\* the end of the parallel region, line 254
HbEnd ==
  /\ pc = "hb"
  /\ hbTaken = Range0(Nres)
  /\ \A w \in Workers : hbWk[w].st = "idle"
  /\ pc' = "ss"
  /\ resi' = 0
  /\ UNCHANGED <<Nres, SecStruct, Nframe, SSline, frame, parm, setupRet,
                 actionRet, nsetup>>
  /\ UNCHANGED <<dbVars, hbVars>>

-----------------------------------------------------------------------------
(* Specifications                                                          *)

Init == DsspStart /\ DbStart /\ HbStart

SetupSS == DsspSetup(ParmsSS, MaxSetupsSS)
HBondSS == DsspHBond(FramesSS, MaxFramesSS)

NextSS == SetupSS \/ HBondSS \/ DsspSS \/ DsspTurn \/ DsspStore

SpecSS == Init /\ [][NextSS]_vars

SetupSeq == DsspSetup(ParmsSeq, MaxSetups)
HBondSeq == DsspHBond(FramesSeq, MaxFrames)

NextFrames ==
  SetupSeq \/ HBondSeq \/ DsspSS \/ DsspTurn \/ DsspStore \/ DsspPrint

SpecFrames == Init /\ [][NextFrames]_vars

SetupHB == DsspSetup(ParmsHB, MaxSetupsSS)
BeginHB == HbBegin(FramesHB, MaxFramesSS)

NextHB ==
  \/ SetupHB
  \/ BeginHB
  \/ \E w \in Workers : HbTake(w)
  \/ \E w \in Workers : HbReset(w)
  \/ \E w \in Workers : HbCell(w)
  \/ HbEnd

SpecHB == Init /\ [][NextHB]_vars

NextDB ==
  \/ SetupCluster
  \/ ClusterBegin
  \/ ClusterPoint
  \/ ClusterFinish
  \/ SieveBegin
  \/ \E w \in Workers : SieveTake(w)
  \/ \E w \in Workers : SieveDecide(w)
  \/ SieveCommit

SpecDB == Init /\ [][NextDB]_vars

-----------------------------------------------------------------------------
(* action() as a function of the table and the frame                       *)

\* the loop of lines 262-304 from residue i on
RECURSIVE SSPass(_, _, _)
SSPass(S, n, i) == IF i >= n THEN S ELSE SSPass(SSIter(S, n, i), n, i + 1)

\* the loop of lines 307-321 from residue i on
RECURSIVE TurnPass(_, _, _)
TurnPass(S, n, i) ==
  IF i >= n THEN S ELSE TurnPass(TurnIter(S, n, i), n, i + 1)

\* labels and bonds of action() up to line 321
Classify(S, n, fr) == TurnPass(SSPass(HBondPhase(S, n, fr), n, 0), n, 0)

\* the table as the setup() calls alone leave it: no label, no bond
NoFrameYet(S) ==
  [r \in DOMAIN S |->
     [S[r] EXCEPT !.sstype = SECSTRUCT_NULL,
                  !.CO_HN_Hbond = [j \in DOMAIN S[r].CO_HN_Hbond |-> 0]]]

Selected(i) == i \in Range0(Nres) /\ SecStruct[i].isSelected

Label(i) == SecStruct[i].sstype

HBond(i, j) == isBonded(SecStruct, Nres, i, j)

\* residue i satisfies the sheet criterion with some selected j, |i-j| > 2
BetaCriterion(i) ==
  \E j \in Range0(Nres) :
     /\ SecStruct[j].isSelected
     /\ Abs(i - j) > 2
     /\ ParaRule(SecStruct, Nres, i, j) \/ AntiRule(SecStruct, Nres, i, j)

AlphaCriterion(i) == AlphaRule(SecStruct, Nres, i)

\* residue i lies in the span k..k+3 of a residue k that satisfies the
\* Alpha criterion
InAlphaSpan(i) ==
  \E k \in Range0(Nres) :
     k <= i /\ i <= k + 3 /\ SecStruct[k].isSelected /\ AlphaCriterion(k)

InAction == pc \in {"ss", "turn", "store"}

-----------------------------------------------------------------------------
(* Claims                                                                  *)

\* C1: within one action() call, after the hydrogen-bond phase has reset
\* the labels, a label changes only from None to a type other than None;
\* it never changes from one type to another or back to None before the
\* next action() call resets it.
C1_LabelFinal ==
  [][ \/ pc = "idle" /\ pc' = "ss"
      \/ \A r \in DOMAIN SecStruct :
            SecStruct'[r].sstype # SecStruct[r].sstype
              => /\ SecStruct[r].sstype = SECSTRUCT_NULL
                 /\ SecStruct'[r].sstype # SECSTRUCT_NULL ]_vars

\* C1 witness: the Alpha rule fired at a residue that an earlier iteration
\* had labelled 3-10, and the label stayed.
C1_Witness ==
  /\ pc = "store"
  /\ \E i \in Range0(Nres) :
        Selected(i) /\ AlphaCriterion(i) /\ Label(i) = "3-10"

\* C2: priority H > B/E > G > I > T: at the end of the frame a selected
\* residue that satisfies the sheet criterion and lies in no Alpha span is
\* labelled Para or Anti.
C2_SheetBeforeOtherHelices ==
  pc = "store" =>
    \A i \in Range0(Nres) :
       (Selected(i) /\ BetaCriterion(i) /\ ~InAlphaSpan(i))
          => Label(i) \in {"Para", "Anti"}

\* C3: at the end of the frame a residue that satisfies the Alpha criterion
\* and a sheet criterion is labelled Alpha.
C3_AlphaWins ==
  pc = "store" =>
    \A i \in Range0(Nres) :
       (Selected(i) /\ AlphaCriterion(i) /\ BetaCriterion(i))
          => Label(i) = "Alpha"

HasCO(i) == SecStruct[i].C # -1 /\ SecStruct[i].O # -1

HasNH(j) == SecStruct[j].N # -1 /\ SecStruct[j].H # -1

C6_Bonds ==
  InAction =>
    \A i \in Range0(Nres) : \A j \in DOMAIN SecStruct[i].CO_HN_Hbond :
       SecStruct[i].CO_HN_Hbond[j] = 1
         => /\ i # j
            /\ j \in Range0(Nres)
            /\ SecStruct[i].isSelected /\ SecStruct[j].isSelected
            /\ HasCO(i) /\ HasNH(j)

C6_Counted ==
  /\ (pc \in {"ss", "turn"}) => (pc' \in {"ss", "turn", "store"})
  /\ (pc = "store") =>
        (pc' = "idle" /\ Nframe' = Nframe + 1 /\ actionRet' = 0)

\* C6: after the hydrogen-bond phase HBond(i,j) holds only if i # j, both
\* residues are selected, i has C and O and j has N and H (so a residue
\* without C or O has an all-false row and one without N or H an all-false
\* column); a missing atom never aborts the frame: action() goes on to
\* store the frame, counts it and returns 0.
C6_MissingAtoms == []C6_Bonds /\ [][C6_Counted]_vars

\* C6 witness: a counted frame whose geometry would bond i to j, where a
\* selected residue i lacks C or O, or the selected residue j lacks N or H.
C6_Witness ==
  /\ pc = "idle" /\ Nframe >= 1 /\ actionRet = 0
  /\ \E p \in frame :
        /\ Selected(p[1]) /\ Selected(p[2])
        /\ ~HasCO(p[1]) \/ ~HasNH(p[2])
        /\ p[2] \in DOMAIN SecStruct[p[1]].CO_HN_Hbond
        /\ SecStruct[p[1]].CO_HN_Hbond[p[2]] = 0

\* C7: the bonds and labels action() leaves for a frame are those it
\* computes for that frame from a table no earlier frame has touched.
C7_NoStaleState ==
  pc = "store" =>
    LET fresh == Classify(NoFrameYet(SecStruct), Nres, frame)
    IN  \A r \in Range0(Nres) :
           /\ SecStruct[r].sstype = fresh[r].sstype
           /\ SecStruct[r].CO_HN_Hbond = fresh[r].CO_HN_Hbond

\* C7 witness: a later frame leaves a residue None that an earlier frame
\* labelled Turn.
C7_Witness ==
  /\ pc = "store" /\ Nframe >= 1
  /\ \E r \in Range0(Nres) :
        /\ Selected(r)
        /\ SecStruct[r].SSprob["Turn"] >= 1
        /\ Label(r) = SECSTRUCT_NULL

-----------------------------------------------------------------------------
(* Claims about the clustering                                             *)

Sieved == FrameDistances_.ignore

NotSieved == Frames \ Sieved

\* the clusters frame f is a member of
ClustersOf(f) == {c \in DOMAIN clusters_ : f \in clusters_[c]}

\* the frames not ignored within epsilon of f
Near(f) == {q \in NotSieved : q # f /\ FrameDist(f, q) < epsilon_}

CorePoint(f) == f \in NotSieved /\ Cardinality(Near(f)) >= minPoints_

\* C4: after Cluster() every frame not ignored is in exactly one cluster or
\* is Noise, never both and never neither; no frame is in two clusters and
\* ignored frames are in no cluster.
C4_Partition ==
  cpc = "clustered" =>
    /\ \A f \in NotSieved :
          \/ Cardinality(ClustersOf(f)) = 1 /\ Status_[f] # NOISE
          \/ ClustersOf(f) = {} /\ Status_[f] = NOISE
    /\ \A f \in Frames : Cardinality(ClustersOf(f)) <= 1
    /\ \A f \in Sieved : ClustersOf(f) = {}

\* C4 witness: a run with a sieved frame, a Noise frame and a cluster that
\* took in a frame visited (and marked Noise) before any of its core points.
C4_Witness ==
  /\ cpc = "clustered"
  /\ Sieved # {}
  /\ \E f \in NotSieved : Status_[f] = NOISE
  /\ \E c \in DOMAIN clusters_ : \E f \in clusters_[c] :
        /\ ~CorePoint(f)
        /\ \A g \in clusters_[c] : CorePoint(g) => f < g

\* C5: after Cluster() a frame not ignored is Noise exactly if it is no
\* core point (fewer than minPoints other frames strictly within epsilon)
\* and no core point is strictly within epsilon of it; every core point
\* and every frame within epsilon of one is in a cluster.
C5_ClassicDBSCAN ==
  cpc = "clustered" =>
    \A f \in NotSieved :
       /\ Status_[f] = NOISE
            <=> (~CorePoint(f) /\ \A q \in Near(f) : ~CorePoint(q))
       /\ (CorePoint(f) \/ \E q \in Near(f) : CorePoint(q))
            => ClustersOf(f) # {}

\* C5 witness: a Noise frame at distance exactly epsilon from a core point.
C5_Witness ==
  /\ cpc = "clustered"
  /\ \E f \in NotSieved : \E q \in NotSieved :
        /\ Status_[f] = NOISE
        /\ CorePoint(q)
        /\ FrameDist(f, q) = epsilon_

\* the members cluster c had before restoration began
MembersBefore(c) == clusters_[c] \ Sieved

\* c is the first cluster at minimum centroid distance from f
NearestCluster(f, c) ==
  /\ \A c2 \in DOMAIN clusters_ : centDist[f][c] <= centDist[f][c2]
  /\ \A c2 \in DOMAIN clusters_ : c2 < c => centDist[f][c] < centDist[f][c2]

WithinEpsilon(f, c) ==
  \/ centDist[f][c] < epsilon_
  \/ \E m \in MembersBefore(c) : FrameDist(f, m) < epsilon_

\* C8: under sievetoframe a sieved frame is added to cluster c exactly if c
\* is its nearest-centroid cluster and the centroid, or a member c had
\* before restoration, is strictly within epsilon; every other sieved frame
\* is discarded: restoration completes with it in no cluster and counted
\* among the frames discarded as noise.
C8_FramePolicy ==
  ~sieveToCentroid_ =>
    /\ cpc # "crashed"
    /\ cpc = "done" =>
         /\ \A f \in Sieved : \A c \in DOMAIN clusters_ :
               f \in clusters_[c]
                 <=> (NearestCluster(f, c) /\ WithinEpsilon(f, c))
         /\ n_sieved_noise
               = Cardinality({f \in Sieved : ClustersOf(f) = {}})

\* C9: under the centroid-only policy a sieved frame is added only to the
\* first cluster at minimum centroid distance, whatever epsilon is; when
\* there is a cluster every sieved frame is added and none is discarded.
C9_CentroidPolicy ==
  (cpc = "done" /\ sieveToCentroid_) =>
    /\ \A f \in Sieved : \A c \in DOMAIN clusters_ :
          f \in clusters_[c] <=> NearestCluster(f, c)
    /\ clusters_ # <<>> => n_sieved_noise = 0

\* C9 witness: two centroids at the same distance, not below epsilon, and
\* the frame went to the first cluster.
C9_Witness ==
  /\ cpc = "done" /\ sieveToCentroid_
  /\ Len(clusters_) >= 2
  /\ \E f \in Sieved :
        /\ centDist[f][1] = centDist[f][2]
        /\ centDist[f][1] >= epsilon_
        /\ f \in clusters_[1]

\* the cluster a sieved frame belongs in, from the state before restoration
Target(f) ==
  IF \E c \in DOMAIN clusters_ :
        NearestCluster(f, c) /\ (sieveToCentroid_ \/ WithinEpsilon(f, c))
  THEN CHOOSE c \in DOMAIN clusters_ : NearestCluster(f, c)
  ELSE ClustersEnd

Classified(f) ==
  f \in taken /\ \A w \in Workers : ~(wk[w].st = "found" /\ wk[w].frame = f)

C10_Result ==
  /\ cpc \in {"sieve", "crashed"} =>
        \A f \in Frames :
           frameToCluster[f] = IF f \in Sieved /\ Classified(f)
                               THEN Target(f) ELSE ClustersEnd
  /\ cpc = "done" =>
        \A c \in DOMAIN clusters_ :
           clusters_[c] \cap Sieved = {f \in Sieved : Target(f) = c}

C10_Step ==
  cpc = "sieve" =>
    /\ centDist' = centDist
    /\ clusters_' # clusters_ =>
          (taken = Sieved /\ \A w \in Workers : wk[w].st = "idle")
    /\ cpc' = "sieve" =>
          \A f \in Frames :
             frameToCluster'[f] # frameToCluster[f] =>
                \E w \in Workers :
                   /\ wk[w].st = "found" /\ wk[w].frame = f
                   /\ \A w2 \in Workers \ {w} : wk'[w2] = wk[w2]

\* C10: while sieved frames are classified the clusters and centroids stay
\* as they were, additions are committed only after every sieved frame is
\* classified, a worker writes only the slot of its own frame and its own
\* private variables, and in every order and interleaving each sieved frame
\* gets the cluster determined by the state before restoration.
C10_Snapshot == []C10_Result /\ [][C10_Step]_vars

\* C10 witness: under sievetoframe two sieved frames within epsilon of
\* each other have the same nearest cluster; one was added, the other not.
C10_Witness ==
  /\ cpc = "done" /\ ~sieveToCentroid_
  /\ \E f \in Sieved : \E g \in Sieved : \E c \in DOMAIN clusters_ :
        /\ f # g /\ FrameDist(f, g) < epsilon_
        /\ NearestCluster(f, c) /\ NearestCluster(g, c)
        /\ f \in clusters_[c]
        /\ ClustersOf(g) = {}

\* C11: after AddSievedFrames every sieved frame is in exactly one cluster,
\* or it is in none, carries status Noise and is listed among the reported
\* noise frames; the frames restored and the frames counted as discarded
\* add up to the number of sieved frames.
C11_SievedAccounted ==
  cpc = "done" =>
    /\ \A f \in Sieved :
          \/ Cardinality(ClustersOf(f)) = 1
          \/ /\ ClustersOf(f) = {}
             /\ Status_[f] = NOISE
             /\ f + 1 \in ClusterResults
    /\ Cardinality({f \in Sieved : ClustersOf(f) # {}}) + n_sieved_noise
         = Cardinality(Sieved)
    /\ Nsieved = Cardinality(Sieved)

C12_Step ==
  cpc \in {"clustered", "sieve"} =>
    /\ Len(clusters_') = Len(clusters_)
    /\ \A c \in DOMAIN clusters_ :
          /\ clusters_[c] \subseteq clusters_'[c]
          /\ (clusters_'[c] \ clusters_[c]) \subseteq Sieved
    /\ \A f \in Sieved :
          Cardinality({c \in DOMAIN clusters_ : f \in clusters_'[c]}) <= 1
    /\ \A f \in NotSieved :
          {c \in DOMAIN clusters_ : f \in clusters_'[c]} = ClustersOf(f)

\* C12: from the end of Cluster() on, a step of AddSievedFrames creates and
\* deletes no cluster, removes no frame from a cluster, adds only sieved
\* frames, leaves each sieved frame in at most one cluster and leaves the
\* cluster of every frame that was clustered as it was.
C12_AppendOnly == [][C12_Step]_vars

\* C12 witness: restoration added one sieved frame to a cluster that had
\* members and discarded another sieved frame.
C12_Witness ==
  /\ cpc = "done"
  /\ \E c \in DOMAIN clusters_ :
        MembersBefore(c) # {} /\ clusters_[c] \cap Sieved # {}
  /\ \E f \in Sieved : ClustersOf(f) # {}
  /\ \E f \in Sieved : ClustersOf(f) = {}

\* the orders in which the frames of S can be visited
RECURSIVE Orders(_)
Orders(S) ==
  IF S = {} THEN {<<>>}
  ELSE UNION {{<<x>> \o o : o \in Orders(S \ {x})} : x \in S}

\* the loop of lines 93-151 visiting the frames in the given order
RECURSIVE ClusterInOrder(_, _, _, _, _)
ClusterInOrder(order, k, vis, st, cl) ==
  IF k > Len(order) THEN [vis |-> vis, st |-> st, cl |-> cl]
  ELSE LET v == ClusterVisit(order[k], vis, st, cl)
       IN  ClusterInOrder(order, k + 1, v.vis, v.st, v.cl)

SeqRange(q) == {q[i] : i \in DOMAIN q}

\* C13: visiting the clustered frames in any other order gives the same
\* set of clusters and the same Noise frames as Cluster() gave.
C13_OrderIndependent ==
  cpc = "clustered" =>
    \A order \in Orders(NotSieved) :
       LET r == ClusterInOrder(order, 1, [f \in Frames |-> FALSE],
                               [f \in Frames |-> UNASSIGNED], <<>>)
       IN  /\ SeqRange(r.cl) = SeqRange(clusters_)
           /\ {f \in Frames : r.st[f] = NOISE}
                = {f \in Frames : Status_[f] = NOISE}

-----------------------------------------------------------------------------
(* Cluster() as a function of epsilon, for the matrix and minPoints of the *)
(* run                                                                     *)

\* a faulty query that takes the frames farther than eps as near
RECURSIVE RegionQueryFar(_, _, _, _)
RegionQueryFar(eps, ftc, k, pt) ==
  IF k > Len(ftc) THEN <<>>
  ELSE IF pt = ftc[k] THEN RegionQueryFar(eps, ftc, k + 1, pt)
  ELSE IF GetElement(pt, ftc[k]) > eps
       THEN <<ftc[k]>> \o RegionQueryFar(eps, ftc, k + 1, pt)
  ELSE RegionQueryFar(eps, ftc, k + 1, pt)

\* lines 56-64 with epsilon_ = eps
RECURSIVE RegionQueryWith(_, _, _, _)
RegionQueryWith(eps, ftc, k, pt) ==
  IF k > Len(ftc) THEN <<>>
  ELSE IF pt = ftc[k] THEN RegionQueryWith(eps, ftc, k + 1, pt)
  ELSE IF GetElement(pt, ftc[k]) < eps
       THEN <<ftc[k]>> \o RegionQueryWith(eps, ftc, k + 1, pt)
  ELSE RegionQueryWith(eps, ftc, k + 1, pt)

RegionQueryEps(eps, ftc, k, pt) == RegionQueryWith(eps, ftc, k, pt)

\* lines 116-135 with epsilon_ = eps
RECURSIVE ExpandEps(_, _, _, _, _, _)
ExpandEps(eps, NeighborPts, idx, vis, st, cf) ==
  IF idx > Len(NeighborPts) THEN [vis |-> vis, st |-> st, cf |-> cf]
  ELSE LET neighbor_pt == NeighborPts[idx]
           Npts2 == RegionQueryEps(eps, FramesToCluster, 1, neighbor_pt)
           grown == IF ~vis[neighbor_pt] /\ Len(Npts2) >= minPoints_
                    THEN NeighborPts \o Npts2 ELSE NeighborPts
           a == AddNeighbor(st, cf, neighbor_pt)
       IN  ExpandEps(eps, grown, idx + 1,
                     [vis EXCEPT ![neighbor_pt] = TRUE], a.st, a.cf)

\* lines 93-151 with epsilon_ = eps, from position k of FramesToCluster on
RECURSIVE ClusterEps(_, _, _, _, _)
ClusterEps(eps, k, vis, st, cl) ==
  IF k > Len(FramesToCluster) THEN [vis |-> vis, st |-> st, cl |-> cl]
  ELSE LET pt == FramesToCluster[k]
           NeighborPts == RegionQueryEps(eps, FramesToCluster, 1, pt)
       IN  IF vis[pt] THEN ClusterEps(eps, k + 1, vis, st, cl)
           ELSE IF Len(NeighborPts) < minPoints_
           THEN ClusterEps(eps, k + 1, [vis EXCEPT ![pt] = TRUE],
                           [st EXCEPT ![pt] = NOISE], cl)
           ELSE LET e == ExpandEps(eps, NeighborPts, 1,
                                   [vis EXCEPT ![pt] = TRUE], st, {pt})
                IN  ClusterEps(eps, k + 1, e.vis, e.st, Append(cl, e.cf))

\* Cluster() with epsilon_ = eps on the matrix of the run
ClusterWith(eps) ==
  ClusterEps(eps, 1, [f \in Frames |-> FALSE],
             [f \in Frames |-> UNASSIGNED], <<>>)

\* the number of frames that end in some cluster
NonNoise(eps) == Cardinality(UNION SeqRange(ClusterWith(eps).cl))

\* the values of epsilon compared: below, between and above the distances
EpsVals == 1 .. MaxDist + 1

-----------------------------------------------------------------------------
(* Claims about configuration errors and about the counters                *)

\* SetupCluster has returned an error
SetupFailed == cpc = "rejected"

C15_State ==
  /\ SetupFailed => (clusters_ = <<>> /\ Status_ = <<>>)
  /\ cpc \notin {"new", "rejected"} => (minPoints_ >= 1 /\ epsilon_ > 0)

C15_Step ==
  cpc = "new" =>
    /\ cpc' \in {"rejected", "configured"}
    /\ cpc' = "rejected" <=> (minPoints_' < 1 \/ epsilon_' <= 0)
    /\ clusters_' = <<>> /\ Status_' = <<>> /\ Visited' = <<>>

\* C15: SetupCluster fails exactly if minpoints is absent or below 1 or
\* epsilon is absent or not above 0; it creates no cluster and no frame
\* status, and clustering only ever runs with minPoints >= 1, epsilon > 0.
C15_SetupErrors == []C15_State /\ [][C15_Step]_vars

\* C15 witness: minpoints was accepted and epsilon 0 rejected.
C15_Witness == SetupFailed /\ minPoints_ >= 1 /\ epsilon_ = 0

\* the occurrences counted for residue r of table S
CounterSum(S, r) ==
  LET c == S[r].SSprob
  IN  c["None"] + c["Para"] + c["Anti"] + c["3-10"] + c["Alpha"] + c["Pi"]
        + c["Turn"]

C16_Step ==
  IF pc = "store" /\ pc' = "idle"
  THEN /\ Nframe' = Nframe + 1
       /\ DOMAIN SecStruct' = DOMAIN SecStruct
       /\ \A r \in DOMAIN SecStruct :
             IF Selected(r)
             THEN /\ SecStruct'[r].SSprob[Label(r)]
                       = SecStruct[r].SSprob[Label(r)] + 1
                  /\ \A t \in SStype \ {Label(r)} :
                        SecStruct'[r].SSprob[t] = SecStruct[r].SSprob[t]
                  /\ CounterSum(SecStruct', r) = CounterSum(SecStruct, r) + 1
             ELSE SecStruct'[r].SSprob = SecStruct[r].SSprob
  ELSE /\ Nframe' = Nframe
       /\ DOMAIN SecStruct \subseteq DOMAIN SecStruct'
       /\ \A r \in DOMAIN SecStruct :
             SecStruct'[r].SSprob = SecStruct[r].SSprob

\* C16: the step that ends an action() adds 1 to the counter of the final
\* label of every selected residue, to no other counter, and 1 to Nframe;
\* every other step, setup() with or without growth of the table included,
\* leaves every existing counter at its residue index and Nframe as they
\* were.
C16_Counters == [][C16_Step]_vars

\* C16 witness: after a frame was counted a setup() has grown the table;
\* the counted residue kept its count and a residue added by the growth
\* (its bond row is longer) has none.
C16_Witness ==
  /\ pc = "idle" /\ Nframe = 1 /\ nsetup = 2
  /\ \E r \in DOMAIN SecStruct : \E q \in DOMAIN SecStruct :
        /\ CounterSum(SecStruct, r) = 1
        /\ CounterSum(SecStruct, q) = 0
        /\ Size(SecStruct[q].CO_HN_Hbond) > Size(SecStruct[r].CO_HN_Hbond)

\* what print() has reported
dsspData == Averages(SecStruct, Nres, Nframe)

\* C17: when print() runs with no frame processed, no average it reports
\* is NaN or infinite.
C17_NoFramesNoNaN ==
  (pc = "printed" /\ Nframe = 0) =>
    \A r \in DOMAIN dsspData : \A ss \in DOMAIN dsspData[r] :
       dsspData[r][ss].kind = "finite"

\* C18: with N > 0 frames print() reports, for every selected residue and
\* each of the 6 types other than None, the occurrences of the type over N;
\* a residue that had type T in all N frames gets N/N for T and 0/N for
\* the five others.
C18_Averages ==
  (pc = "printed" /\ Nframe > 0) =>
    /\ DOMAIN dsspData = {r \in Range0(Nres) : Selected(r)}
    /\ \A r \in DOMAIN dsspData :
          /\ \A t \in SStype \ {SECSTRUCT_NULL} :
                dsspData[r][SSindex(t)]
                  = [kind |-> "finite", num |-> SecStruct[r].SSprob[t],
                     den |-> Nframe]
          /\ \A T \in SStype \ {SECSTRUCT_NULL} :
                SecStruct[r].SSprob[T] = Nframe =>
                   \A t \in SStype \ {SECSTRUCT_NULL} :
                      dsspData[r][SSindex(t)].num
                        = IF t = T THEN dsspData[r][SSindex(t)].den ELSE 0

\* C18 witness: two frames; one residue was Turn in both, another in one.
C18_Witness ==
  /\ pc = "printed" /\ Nframe = 2
  /\ \E r \in DOMAIN dsspData : \E q \in DOMAIN dsspData :
        /\ SecStruct[r].SSprob["Turn"] = 2
        /\ SecStruct[q].SSprob["Turn"] = 1

\* the character of each structure type
CodeOf(t) ==
  CASE t = "None" -> "0" [] t = "Para" -> "b" [] t = "Anti" -> "B"
    [] t = "3-10" -> "G" [] t = "Alpha" -> "H" [] t = "Pi" -> "I"
    [] t = "Turn" -> "T"

C19_Step ==
  IF pc = "store" /\ pc' = "idle"
  THEN LET sel == AscendingSeq({r \in Range0(Nres) : Selected(r)})
       IN  /\ Len(SSline') = Len(sel)
           /\ \A k \in DOMAIN sel : SSline'[k] = CodeOf(Label(sel[k]))
  ELSE SSline' = SSline

\* C19: the step that ends an action() sets the string to one character a
\* selected residue, in ascending residue order, each the code of the
\* residue's label under None=0, Para=b, Anti=B, 3-10=G, Alpha=H, Pi=I,
\* Turn=T; no other step touches the string.
C19_StringMode == [][C19_Step]_vars

\* C19 witness: a string shorter than the topology (a residue is not
\* selected) that holds a Turn and a None character.
C19_Witness ==
  /\ pc = "idle" /\ Nframe >= 1
  /\ Len(SSline) < Nres
  /\ \E k \in DOMAIN SSline : SSline[k] = "T"
  /\ \E k \in DOMAIN SSline : SSline[k] = "0"

\* no residue of topology P has a C, O, N or H atom for setup() to record
LacksBackbone(P) ==
  \A r \in Range0(P.nres) : P.sel[r] \cap BackboneNames = {}

C20_Step ==
  /\ nsetup' = nsetup + 1 =>
        ((MaskNone(parm') \/ LacksBackbone(parm')) => setupRet' # 0)
  /\ (pc = "idle" /\ pc' = "ss") => setupRet = 0

\* C20: setup() returns non-zero whenever the mask selects no atom and
\* whenever no residue has any of the backbone atoms; no frame is given to
\* action() while the last setup() has failed.
C20_SetupFailure == [][C20_Step]_vars

-----------------------------------------------------------------------------
(* Claims about the parallel hydrogen-bond loop                            *)

\* the iteration thread w is in
Running(w) == hbWk[w].st \in {"reset", "row"}

C21_Result ==
  (pc = "ss" /\ Nframe = 0 /\ hbTaken # {}) =>
     SecStruct = HBondPhase(SecStruct, Nres, frame)

C21_Step ==
  pc = "hb" =>
    \A r \in DOMAIN SecStruct :
       /\ SecStruct'[r].isSelected = SecStruct[r].isSelected
       /\ SecStruct'[r].C = SecStruct[r].C /\ SecStruct'[r].O = SecStruct[r].O
       /\ SecStruct'[r].N = SecStruct[r].N /\ SecStruct'[r].H = SecStruct[r].H
       /\ SecStruct'[r].SSprob = SecStruct[r].SSprob
       /\ SecStruct'[r] # SecStruct[r] =>
             \E w \in Workers : Running(w) /\ hbWk[w].resi = r

\* C21: in the parallel loop a step changes only the label and the row of
\* the residue whose iteration takes it, the fields other iterations read
\* (isSelected, C, O, N, H) are never written, and whatever the
\* interleaving the loop ends with the labels and rows that the sequential
\* loop gives.
C21_RaceFree == []C21_Result /\ [][C21_Step]_vars

\* C21 witness: two threads are inside the rows of two residues at the same
\* time, each with a bond already recorded.
C21_Witness ==
  /\ pc = "hb"
  /\ \E w \in Workers : \E v \in Workers :
        /\ w # v
        /\ hbWk[w].st = "row" /\ hbWk[v].st = "row"
        /\ \E j \in Range0(Nres) : SecStruct[hbWk[w].resi].CO_HN_Hbond[j] = 1
        /\ \E j \in Range0(Nres) : SecStruct[hbWk[v].resi].CO_HN_Hbond[j] = 1

-----------------------------------------------------------------------------
(* Claims about the rules of the helix / sheet pass and the Turn pass      *)

\* an iteration of the helix / sheet pass is about to run for residue resi
SSIteration == pc = "ss" /\ resi < Nres

\* the residues whose label the step changes to t
NewlyLabelled(t) ==
  {r \in Range0(Nres) : SecStruct[r].sstype # t /\ SecStruct'[r].sstype = t}

C22_Step ==
  (SSIteration /\ Selected(resi) /\ Label(resi) # SECSTRUCT_NULL) =>
     (NewlyLabelled("3-10") = {} /\ NewlyLabelled("Pi") = {})

\* C22: an iteration of the helix / sheet pass whose residue already has a
\* label gives no residue the label 3-10 and no residue the label Pi.
C22_HelixOnlyIfNone == [][C22_Step]_vars

\* an iteration of the Turn pass is about to run for residue resi
TurnIteration == pc = "turn" /\ resi < Nres

\* the spans of {3, 4, 5} over which residue i is bonded
TurnSpans(i) == {s \in 3..5 : HBond(i, i + s)}

LongestSpan(i) == CHOOSE s \in TurnSpans(i) : \A t \in TurnSpans(i) : t <= s

\* the residues strictly inside the longest bonded span of residue i
InsideTurn(i) ==
  IF ~Selected(i) \/ TurnSpans(i) = {} THEN {}
  ELSE {r \in Range0(Nres) : i < r /\ r < i + LongestSpan(i)}

C23_Step ==
  /\ NewlyLabelled("Turn") # {} => TurnIteration
  /\ TurnIteration =>
       \A r \in Range0(Nres) :
          SecStruct'[r].sstype =
             IF r \in InsideTurn(resi) /\ Selected(r) /\ Label(r) = SECSTRUCT_NULL
             THEN "Turn" ELSE Label(r)

\* C23: Turn labels are given only by the second pass, which runs after the
\* helix / sheet pass: its iteration for a selected residue i takes the
\* longest span s of 5, 4, 3 with HBond(i, i+s) and labels Turn exactly the
\* selected residues of i+1..i+s-1 that are still None; every other label,
\* those of i and i+s included, stays as it is.
C23_TurnPass == [][C23_Step]_vars

\* the iteration of residue resi-1 found two bonded spans and labelled the
\* residue that only the longer one covers, next to a helix residue it kept
C23_Witness ==
  /\ pc = "turn" /\ resi >= 1
  /\ HBond(resi - 1, resi + 2) /\ HBond(resi - 1, resi + 4)
  /\ Label(resi + 3) = "Turn"
  /\ \E r \in Range0(Nres) : Label(r) \in {"Alpha", "3-10", "Pi", "Para", "Anti"}

\* the selected residues j, more than 2 away from i, with which residue i
\* forms the Parallel or the Antiparallel pattern
BetaPartners(i) ==
  {j \in Range0(Nres) :
     /\ SecStruct[j].isSelected
     /\ Abs(i - j) > 2
     /\ ParaRule(SecStruct, Nres, i, j) \/ AntiRule(SecStruct, Nres, i, j)}

FirstPartner(i) == CHOOSE j \in BetaPartners(i) : \A k \in BetaPartners(i) : j <= k

\* the label the first partner gives residue i
BetaLabel(i) ==
  IF ParaRule(SecStruct, Nres, i, FirstPartner(i)) THEN "Para" ELSE "Anti"

NewSheet == NewlyLabelled("Para") \cup NewlyLabelled("Anti")

C24_Step ==
  /\ NewSheet # {} =>
       /\ SSIteration /\ Selected(resi) /\ Label(resi) = SECSTRUCT_NULL
       /\ BetaPartners(resi) # {}
       /\ \A r \in Range0(Nres) :
            SecStruct'[r].sstype = IF r = resi THEN BetaLabel(resi) ELSE Label(r)
  /\ ( /\ SSIteration /\ Selected(resi) /\ Label(resi) = SECSTRUCT_NULL
       /\ ~AlphaRule(SecStruct, Nres, resi)
       /\ BetaPartners(resi) # {} ) => NewSheet = {resi}

\* C24: a residue gets a sheet label only in its own iteration of the helix /
\* sheet pass and only if it is still None there; the label is decided by the
\* first selected j in ascending order, more than 2 residues away, with which
\* the Parallel or the Antiparallel pattern holds, Parallel if both hold for
\* that j; no other residue changes its label in that step.
C24_BetaRule == [][C24_Step]_vars

\* residue resi-1 was labelled Parallel by a first partner with which the
\* Antiparallel pattern holds too
C24_Witness ==
  /\ pc = "ss" /\ resi >= 1
  /\ Label(resi - 1) = "Para"
  /\ BetaPartners(resi - 1) # {}
  /\ AntiRule(SecStruct, Nres, resi - 1, FirstPartner(resi - 1))

-----------------------------------------------------------------------------
(* Claims about the frame status kept by Cluster()                         *)

\* the status changes one iteration of the loop over the points may make
StatusMoves ==
  {<<UNASSIGNED, NOISE>>, <<UNASSIGNED, INCLUSTER>>, <<NOISE, INCLUSTER>>}

C25_Step ==
  cpc = "cluster" =>
    \A f \in Frames :
       Status_'[f] # Status_[f] => <<Status_[f], Status_'[f]>> \in StatusMoves

C25_State ==
  cpc \in {"cluster", "clustered"} =>
    \A f \in Frames : Status_[f] = INCLUSTER => Visited[f]

\* C25: while Cluster() runs a status changes only from Unassigned to Noise,
\* from Unassigned to InCluster or from Noise to InCluster, so an InCluster
\* frame keeps its status and is never marked Noise later; every InCluster
\* frame has been visited.
C25_StatusMoves == []C25_State /\ [][C25_Step]_vars

\* Cluster() is still running, a frame is Noise, and a frame that is no core
\* point and precedes every core point of its cluster, hence was Noise when
\* the cluster was started, is InCluster
C25_Witness ==
  /\ cpc = "cluster"
  /\ point <= Len(FramesToCluster)
  /\ \E f \in NotSieved : Status_[f] = NOISE
  /\ \E c \in DOMAIN clusters_ : \E f \in clusters_[c] :
        /\ Status_[f] = INCLUSTER
        /\ ~CorePoint(f)
        /\ \A q \in clusters_[c] : CorePoint(q) => f < q

\* C26: after Cluster() a frame has status InCluster exactly if it is a
\* member of some cluster, and no frame that is not ignored is left
\* Unassigned.
C26_StatusIsMembership ==
  cpc = "clustered" =>
    /\ \A f \in Frames : Status_[f] = INCLUSTER <=> ClustersOf(f) # {}
    /\ \A f \in NotSieved : Status_[f] # UNASSIGNED

\* C27: every cluster Cluster() has recorded contains at least minPoints
\* frames.
C27_ClusterSize ==
  cpc \in {"cluster", "clustered"} =>
    \A c \in DOMAIN clusters_ : Cardinality(clusters_[c]) >= minPoints_

-----------------------------------------------------------------------------
(* Claims about the iterators of AddSievedFrames()                         *)

\* worker w has finished the search of lines 229-239 and goes on to the
\* member loop of line 246, which reads (*minNode).Nframes()
ReadsMembers(w) ==
  cpc = "sieve" /\ wk[w].st = "found" /\ ~CentroidAccepts(wk[w].mindist)

\* C28: AddSievedFrames never reads the member list of the end-of-list
\* position: whenever a worker goes on to the member loop, under either
\* policy and also with an empty cluster list, minNode is a cluster of the
\* list; and the restoration never ends abnormally.
C28_NoEndAccess ==
  /\ \A w \in DOMAIN wk : ReadsMembers(w) => wk[w].minNode # ClustersEnd
  /\ cpc # "crashed"

-----------------------------------------------------------------------------
(* Claims about the residue table setup() leaves                           *)

\* the index of atom `name` of residue r under the current topology and
\* mask, -1 if the mask selects no such atom
CurrentAtom(r, name) ==
  IF name \in parm.sel[r] THEN AtomIdx(r, name) ELSE -1

\* C29: after a successful setup() every residue of the current topology is
\* selected exactly if the current mask selects an atom of it, and its C, O,
\* N, H indices are those of the current topology and mask, -1 where the
\* mask selects no such atom.
C29_CurrentTopologyOnly ==
  setupRet = 0 =>
    \A r \in Range0(Nres) :
       /\ SecStruct[r].isSelected <=> parm.sel[r] # {}
       /\ SecStruct[r].C = CurrentAtom(r, "C")
       /\ SecStruct[r].O = CurrentAtom(r, "O")
       /\ SecStruct[r].N = CurrentAtom(r, "N")
       /\ SecStruct[r].H = CurrentAtom(r, "H")

-----------------------------------------------------------------------------
(* Claims about the terminal residues                                      *)

TerminalLabels == {SECSTRUCT_NULL, "Para", "Anti"}

\* C30: in no state of a frame's classification, and so at its end, is
\* residue 0 or residue Nres-1 labelled Alpha, 3-10, Pi or Turn: each is
\* None, Para or Anti.
C30_Terminals ==
  (InAction /\ Nres >= 1) =>
    /\ Label(0) \in TerminalLabels
    /\ Label(Nres - 1) \in TerminalLabels

\* a frame has been classified in which a helix and a turn reach the
\* residues next to the terminal ones, and the last residue is in a sheet
C30_Witness ==
  /\ pc = "store"
  /\ Label(1) \in {"Alpha", "3-10", "Pi"}
  /\ Label(Nres - 2) \in {"Alpha", "3-10", "Pi", "Turn"}
  /\ HBond(0, 3) \/ HBond(0, 4) \/ HBond(0, 5)
  /\ Label(Nres - 1) \in {"Para", "Anti"}

====
